---- MODULE Spec2Model ----
(***************************************************************************)
(* Company-intelligence workflow: the LangGraph pipeline built by          *)
(* src/src/orchestrator/supervisor.py (data_collector -> analyst ->        *)
(* report_generator), its checkpointer, the run entry point                *)
(* run_intelligence_workflow and the command line front end src/main.py.   *)
(*                                                                         *)
(* Beside the workflow: the event-log merge policy on its own, the tool    *)
(* src/src/tools/risk_analyzer.py, and the conversational bot of           *)
(* src/knowledge_bot (bot.py, memory.py, tools.py), each with its own      *)
(* specification over the same variables.                                  *)
(*                                                                         *)
(* Python values are modelled as tagged tuples so that None, the empty     *)
(* string, the empty list and non-empty values stay distinct and the       *)
(* truthiness tests of the code can be evaluated as Python evaluates them. *)
(***************************************************************************)
EXTENDS Integers, Sequences, FiniteSets, TLC

\* ---------------------------------------------------------------- bounds
MaxRuns == 3
MaxLen == 2
MaxArticles == 2
MaxTurns == 2

\* Subjects given as company_name, session identifiers given as thread_id.
Subjects == {"Acme Corp", "tesla"}
Threads == {"s1", "s2"}
Callers == {"main", "direct"}

\* str(e) of the exception a stage function raises; an exception built
\* without arguments (MemoryError(), a bare assert) has the empty string.
ExcMsgs == {"", "boom"}

\* ------------------------------------------------------- Python values
None == <<"None">>
PyStr(s) == <<"str", s>>
PyText(parts) == <<"text", parts>>
PyList(elems) == <<"list", elems>>
PyDict(d) == <<"dict", d>>

\* bool(v) as the interpreter evaluates it in `if v:`
Truthy(v) ==
    CASE v[1] = "None" -> FALSE
      [] v[1] = "str"  -> v[2] # ""
      [] v[1] = "text" -> v[2] # <<>>
      [] v[1] = "list" -> v[2] # <<>>
      [] v[1] = "dict" -> DOMAIN v[2] # {}

\* d.get(k, default) on a mapping with string keys
Get(d, k, default) == IF k \in DOMAIN d THEN d[k] ELSE default

\* str.upper() on the subjects of the model
Upper(s) ==
    CASE s = "Acme Corp" -> "ACME CORP"
      [] s = "tesla"     -> "TESLA"

EmptyDict == [k \in {} |-> None]

\* ------------------------------------------------------ aggregate state
\* create_initial_state(company_name): the subject is set, every payload is
\* None, the log is empty and no stage has run.
create_initial_state(company_name) ==
    [ company_name  |-> PyStr(company_name),
      news_data     |-> None,
      stock_data    |-> None,
      analysis      |-> None,
      risk_factors  |-> None,
      final_report  |-> None,
      current_agent |-> PyStr(""),
      error         |-> None,
      messages      |-> <<>> ]

\* variant whose log policy puts the new entries in front of the old ones
Merge_prepending(current, partial) ==
    [ f \in (DOMAIN current) \cup (DOMAIN partial) |->
        IF f \in DOMAIN partial
        THEN IF f = "messages"
             THEN partial[f] \o Get(current, "messages", <<>>)
             ELSE partial[f]
        ELSE current[f] ]

\* The field policies of AgentState: messages is appended, every other key
\* of the update replaces, keys absent from the update keep their value.
Merge(current, partial) ==
    [ f \in (DOMAIN current) \cup (DOMAIN partial) |->
        IF f \in DOMAIN partial
        THEN IF f = "messages"
             THEN Get(current, "messages", <<>>) \o partial[f]
             ELSE partial[f]
        ELSE current[f] ]

\* ---------------------------------------------------------------- tools
\* news_fetcher_tool: five simulated articles, or one error record.
NewsArticles == PyList(<<"a1", "a2", "a3", "a4", "a5">>)
NewsErrorRecord == PyList(<<"error_record">>)
news_fetcher_results == {NewsArticles, NewsErrorRecord}

\* stock_data_tool: a metrics record, or a record with an "error" key.
StockMetrics(company_name) ==
    PyDict([ticker |-> "TICK", company_name |-> company_name])
StockErrorRecord(company_name) ==
    PyDict([error |-> "Failed to fetch stock data", company_name |-> company_name])
stock_data_results(company_name) ==
    {StockMetrics(company_name), StockErrorRecord(company_name)}

\* collect_data_directly: both tools are invoked, their values returned.
collect_data_directly(news, stock) ==
    [ news_data |-> news, stock_data |-> stock,
      current_agent |-> PyStr("data_collector") ]

format_news_for_summary(news_data) ==
    IF ~Truthy(news_data) THEN "No recent news available." ELSE "news lines"

format_stock_for_summary(stock_data) ==
    IF ~Truthy(stock_data) \/ "error" \in DOMAIN stock_data[2]
    THEN "Stock data unavailable."
    ELSE "Stock Performance Summary"

\* risk_analyzer_tool(...).get("all_risks", []) as analyze_data_directly
\* reads it: the specific risks found in the data followed by the three
\* general market risks, or the empty list when the tool returned its
\* error record (which has no "all_risks" key).
MarketRisks == <<"market_risk_1", "market_risk_2", "market_risk_3">>
risk_factor_results ==
    { PyList(<<>>), PyList(MarketRisks), PyList(<<"specific_risk">> \o MarketRisks) }

analyze_data_directly(company_name, news_data, stock_data, risks) ==
    [ analysis |-> PyText(<< "Market Summary", company_name,
                             format_news_for_summary(news_data),
                             format_stock_for_summary(stock_data) >>),
      risk_factors |-> risks,
      current_agent |-> PyStr("analyst") ]

\* ---------------------------------------------------------------- nodes
\* variant that treats an error record of a tool as a failure of the stage
data_collector_success_failing_on_error_record(result) ==
    IF result.news_data = NewsErrorRecord
       \/ "error" \in DOMAIN result.stock_data[2]
    THEN [ error         |-> PyStr("Failed to fetch"),
           current_agent |-> PyStr("data_collector"),
           messages      |-> <<"Error collecting data">> ]
    ELSE [ news_data     |-> result.news_data,
           stock_data    |-> result.stock_data,
           current_agent |-> PyStr("data_collector"),
           messages      |-> <<"Collected news articles and stock data">> ]

\* data_collector_node, try branch
data_collector_success(result) ==
    [ news_data     |-> result.news_data,
      stock_data    |-> result.stock_data,
      current_agent |-> PyStr("data_collector"),
      messages      |-> <<"Collected news articles and stock data">> ]

\* variant of the except branch that returns no log entry
data_collector_failure_without_log(msg) ==
    [ error         |-> PyStr(msg),
      current_agent |-> PyStr("data_collector") ]

\* data_collector_node, except branch
data_collector_failure(msg) ==
    [ error         |-> PyStr(msg),
      current_agent |-> PyStr("data_collector"),
      messages      |-> <<"Error collecting data">> ]

\* variant of the try branch that also hands back an emptied news_data
analyst_success_clearing_news(result) ==
    [ analysis      |-> result.analysis,
      risk_factors  |-> result.risk_factors,
      news_data     |-> None,
      current_agent |-> PyStr("analyst"),
      messages      |-> <<"Completed analysis">> ]

\* analyst_node, try branch
analyst_success(result) ==
    [ analysis      |-> result.analysis,
      risk_factors  |-> result.risk_factors,
      current_agent |-> PyStr("analyst"),
      messages      |-> <<"Completed analysis">> ]

\* variant of the except branch that names the wrong stage
analyst_failure_wrong_marker(msg) ==
    [ error         |-> PyStr(msg),
      current_agent |-> PyStr("data_collector"),
      messages      |-> <<"Error analyzing data">> ]

\* analyst_node, except branch
analyst_failure(msg) ==
    [ error         |-> PyStr(msg),
      current_agent |-> PyStr("analyst"),
      messages      |-> <<"Error analyzing data">> ]

\* variant of the report whose header shows company_name as given
report_sections_plain_header(st) ==
    LET company_name == st.company_name[2]
        news_data    == Get(st, "news_data", PyList(<<>>))
        stock_data   == Get(st, "stock_data", PyDict(EmptyDict))
        analysis     == Get(st, "analysis", PyStr(""))
        risk_factors == Get(st, "risk_factors", PyList(<<>>))
    IN    << <<"header", company_name>> >>
       \o (IF Truthy(stock_data) /\ "error" \notin DOMAIN stock_data[2]
           THEN << <<"stock", format_stock_for_summary(stock_data)>> >>
           ELSE <<>>)
       \o (IF Truthy(news_data)
           THEN << <<"news", SubSeq(news_data[2], 1,
                       IF Len(news_data[2]) < 5 THEN Len(news_data[2]) ELSE 5)>> >>
           ELSE <<>>)
       \o (IF Truthy(analysis) THEN << <<"analysis", analysis>> >> ELSE <<>>)
       \o (IF Truthy(risk_factors) THEN << <<"risks", risk_factors[2]>> >> ELSE <<>>)
       \o << <<"footer", "DISCLAIMER">> >>

\* report_generator_node: the sections of the report in the order they are
\* appended to report_sections, joined into final_report.
report_sections(st) ==
    LET company_name == st.company_name[2]
        news_data    == Get(st, "news_data", PyList(<<>>))
        stock_data   == Get(st, "stock_data", PyDict(EmptyDict))
        analysis     == Get(st, "analysis", PyStr(""))
        risk_factors == Get(st, "risk_factors", PyList(<<>>))
    IN    << <<"header", Upper(company_name)>> >>
       \o (IF Truthy(stock_data) /\ "error" \notin DOMAIN stock_data[2]
           THEN << <<"stock", format_stock_for_summary(stock_data)>> >>
           ELSE <<>>)
       \o (IF Truthy(news_data)
           THEN << <<"news", SubSeq(news_data[2], 1,
                       IF Len(news_data[2]) < 5 THEN Len(news_data[2]) ELSE 5)>> >>
           ELSE <<>>)
       \o (IF Truthy(analysis) THEN << <<"analysis", analysis>> >> ELSE <<>>)
       \o (IF Truthy(risk_factors) THEN << <<"risks", risk_factors[2]>> >> ELSE <<>>)
       \o << <<"footer", "DISCLAIMER">> >>

report_generator_update(st) ==
    [ final_report  |-> PyText(report_sections(st)),
      current_agent |-> PyStr("report_generator"),
      messages      |-> <<"Final report generated">> ]

\* --------------------------------------------------------------- router
END == "__end__"

\* variant of should_continue that lacks the `elif current_agent == "analyst"`
\* branch, so the analyst is followed by "end"
should_continue_without_analyst_branch(st) ==
    LET current_agent == Get(st, "current_agent", PyStr(""))
        error         == Get(st, "error", None)
    IN  IF Truthy(error) THEN "end"
        ELSE IF current_agent = PyStr("data_collector") THEN "analyst"
        ELSE "end"

should_continue(st) ==
    LET current_agent == Get(st, "current_agent", PyStr(""))
        error         == Get(st, "error", None)
    IN  IF Truthy(error) THEN "end"
        ELSE IF current_agent = PyStr("data_collector") THEN "analyst"
        ELSE IF current_agent = PyStr("analyst") THEN "report_generator"
        ELSE "end"

\* create_intelligence_workflow: entry point, the two conditional edge
\* mappings and the plain edge report_generator -> END.
entry_point == "data_collector"

\* variant of the edge mappings in which the analyst's mapping lacks "end"
conditional_edges_without_analyst_end ==
    [ data_collector |-> [analyst |-> "analyst", end |-> END],
      analyst        |-> [report_generator |-> "report_generator"] ]

conditional_edges ==
    [ data_collector |-> [analyst |-> "analyst", end |-> END],
      analyst        |-> [report_generator |-> "report_generator", end |-> END] ]

\* The node the graph runs after `node` has completed in state st.  A branch
\* value that is no key of the node's mapping has no target.
next_node(node, st) ==
    IF node = "report_generator" THEN END
    ELSE LET branch == should_continue(st)
         IN  IF branch \in DOMAIN conditional_edges[node]
             THEN conditional_edges[node][branch]
             ELSE "no_target"

\* ----------------------------------------------------------- checkpoints
\* MemorySaver(): the store of a newly compiled workflow holds no checkpoint.
MemorySaver == [t \in {} |-> EmptyDict]

\* variant of the config that ignores the thread_id argument
config_thread_id_fixed(thread_id) == "s1"

\* config = {"configurable": {"thread_id": thread_id}}: the key of the run
config_thread_id(thread_id) == thread_id

\* A checkpoint: the state values, tagged with the run that wrote them.
Checkpoint(run, st) == [run |-> run, values |-> st]

\* the checkpoint of a session identifier, as a set of at most one checkpoint
checkpoint_get(saver, id) == IF id \in DOMAIN saver THEN {saver[id]} ELSE {}

\* variant of put that keeps the checkpoint an identifier already has
checkpoint_put_keep_existing(saver, id, cp) ==
    [ t \in (DOMAIN saver) \cup {id} |-> IF t \in DOMAIN saver THEN saver[t] ELSE cp ]

\* put: the checkpoint of the identifier is replaced, the others are kept
checkpoint_put(saver, id, cp) ==
    [ t \in (DOMAIN saver) \cup {id} |-> IF t = id THEN cp ELSE saver[t] ]

\* ---------------------------------------------------------------- state
VARIABLES
    pc,          \* "idle", the node about to run, END, "returned", "raised", "exited"
    caller,      \* "main" (one CLI process) or "direct" (a long-lived caller)
    company,     \* company_name of the current run
    thread,      \* thread_id of the current run
    store,       \* the MemorySaver of the workflow compiled for the current run
    loaded,      \* the checkpoint found for the thread when the run started
    state,       \* the aggregate state of the current run
    stream,      \* the chunks app.stream has yielded, each {node: update}
    returned,    \* the value run_intelligence_workflow returned
    exit_code,   \* exit status of main(), -1 while it has not exited
    printed,     \* what main() printed last
    runs,        \* number of runs started in this process
    history,     \* thread_id of every run started, in order
    executed,    \* the stages that executed in the current run, in order
    markers,     \* current_agent after each executed stage of the current run
    failed,      \* the stages of the current run whose body raised
    fault        \* "checkpoint" once a checkpoint write of the current run raised

\* Calls made outside a workflow run, each holding the arguments and the
\* value of the latest call.
VARIABLES
    merge_call,  \* the event log merged with two partial updates
    risk_call,   \* the arguments and the value of risk_analyzer_tool
    search_call  \* the arguments and the value of web_search_tool

\* A KnowledgeBot and its KnowledgeBotMemory.
VARIABLES
    agent_executor,   \* TRUE when the bot was built with an AgentExecutor
    message_history,  \* KnowledgeBotMemory.message_history
    chat_memory,      \* KnowledgeBotMemory.memory, the turns it holds
    current_entity,   \* KnowledgeBot.current_entity
    entity_history,   \* KnowledgeBot.entity_history
    bot_call,         \* the latest call on the bot or its memory
    turns             \* number of calls made on the bot and its memory

kb_vars == << agent_executor, message_history, chat_memory, current_entity,
              entity_history, bot_call, turns >>

wf_vars == << pc, caller, company, thread, store, loaded, state, stream,
              returned, exit_code, printed, runs, history, executed, markers,
              failed, fault >>

aux_vars == << merge_call, risk_call, search_call, kb_vars >>

vars == << wf_vars, aux_vars >>

Stages == {"data_collector", "analyst", "report_generator"}

WorkflowInit ==
    /\ pc = "idle"
    /\ caller = "direct"
    /\ company = "Acme Corp"
    /\ thread = "s1"
    /\ store = MemorySaver
    /\ loaded = {}
    /\ state = EmptyDict
    /\ stream = <<>>
    /\ returned = EmptyDict
    /\ exit_code = -1
    /\ printed = "nothing"
    /\ runs = 0
    /\ history = <<>>
    /\ executed = <<>>
    /\ markers = <<>>
    /\ failed = {}
    /\ fault = "none"

\* no call has been made: every argument is empty
MergeInit ==
    merge_call = [ log |-> <<>>, first |-> <<>>, second |-> <<>>,
                   one_at_a_time |-> <<>>, batched |-> <<>> ]

\* risk_analyzer_tool has not been called
RiskInit ==
    risk_call = [ company_name |-> "", news_data |-> None,
                  stock_data |-> None, result |-> None ]

\* web_search_tool has not been called
SearchInit ==
    search_call = [ query |-> <<>>, wikipedia |-> "", duckduckgo |-> "",
                    result |-> None ]

\* KnowledgeBot.__init__ and KnowledgeBotMemory.__init__
KnowledgeBotInit(use_agent) ==
    /\ agent_executor = use_agent
    /\ message_history = <<>>
    /\ chat_memory = <<>>
    /\ current_entity = None
    /\ entity_history = <<>>
    /\ bot_call = [ op |-> "__init__", user_input |-> <<>>, resolved_input |-> <<>>,
                    response |-> <<>>,
                    path |-> "", raised |-> FALSE ]
    /\ turns = 0

Init ==
    /\ WorkflowInit
    /\ MergeInit
    /\ RiskInit
    /\ SearchInit
    /\ KnowledgeBotInit(FALSE)

\* run_intelligence_workflow up to the first node: compile a workflow (with
\* its own MemorySaver), build the initial state, and let app.stream apply it
\* to whatever checkpoint the store holds for the thread.
StartRun(company_name, thread_id, who) ==
    /\ \/ pc = "idle"
       \/ pc \in {"returned", "raised"} /\ caller = "direct"
    /\ runs < MaxRuns
    /\ LET saver == MemorySaver
           id    == config_thread_id(thread_id)
           found == checkpoint_get(saver, id)
           base  == IF found = {} THEN EmptyDict
                    ELSE (CHOOSE cp \in found : TRUE).values
           st0   == Merge(base, create_initial_state(company_name))
       IN  /\ loaded' = found
           /\ state' = st0
           /\ store' = checkpoint_put(saver, id, Checkpoint(runs + 1, st0))
    /\ caller' = who
    /\ company' = company_name
    /\ thread' = thread_id
    /\ pc' = entry_point
    /\ stream' = <<>>
    /\ returned' = EmptyDict
    /\ runs' = runs + 1
    /\ history' = Append(history, thread_id)
    /\ executed' = <<>>
    /\ markers' = <<>>
    /\ failed' = {}
    /\ fault' = "none"
    /\ UNCHANGED << exit_code, printed >>
    /\ UNCHANGED aux_vars

\* variant of a graph compiled without the checkpointer: no write per step
Complete_without_checkpoint(node, update, raisedInside) ==
    /\ state' = Merge(state, update)
    /\ store' = store
    /\ stream' = Append(stream, [node |-> node, update |-> update])
    /\ executed' = Append(executed, node)
    /\ markers' = Append(markers, state'.current_agent[2])
    /\ failed' = IF raisedInside THEN failed \cup {node} ELSE failed
    /\ pc' = next_node(node, state')
    /\ UNCHANGED << caller, company, thread, loaded, returned, exit_code,
                    printed, runs, history, fault >>
    /\ UNCHANGED aux_vars

\* What the graph does with the update a node returned: merge it, write the
\* checkpoint, yield the chunk, and pick the next node.
Complete(node, update, raisedInside) ==
    /\ state' = Merge(state, update)
    /\ store' = checkpoint_put(store, config_thread_id(thread),
                               Checkpoint(runs, state'))
    /\ stream' = Append(stream, [node |-> node, update |-> update])
    /\ executed' = Append(executed, node)
    /\ markers' = Append(markers, state'.current_agent[2])
    /\ failed' = IF raisedInside THEN failed \cup {node} ELSE failed
    /\ pc' = next_node(node, state')
    /\ UNCHANGED << caller, company, thread, loaded, returned, exit_code,
                    printed, runs, history, fault >>
    /\ UNCHANGED aux_vars

DataCollectorNode ==
    /\ pc = "data_collector"
    /\ \/ \E news \in news_fetcher_results,
             stock \in stock_data_results(state.company_name[2]) :
            Complete("data_collector",
                     data_collector_success(collect_data_directly(news, stock)),
                     FALSE)
       \/ \E msg \in ExcMsgs :
            Complete("data_collector", data_collector_failure(msg), TRUE)

AnalystNode ==
    /\ pc = "analyst"
    /\ LET company_name == state.company_name[2]
           news_data    == Get(state, "news_data", PyList(<<>>))
           stock_data   == Get(state, "stock_data", PyDict(EmptyDict))
       IN  \/ \E risks \in risk_factor_results :
                Complete("analyst",
                         analyst_success(analyze_data_directly(
                             company_name, news_data, stock_data, risks)),
                         FALSE)
           \/ \E msg \in ExcMsgs :
                Complete("analyst", analyst_failure(msg), TRUE)

\* report_generator_node has no try block: when its body raises, the
\* exception leaves app.stream and run_intelligence_workflow.
ReportGeneratorNode ==
    /\ pc = "report_generator"
    /\ \/ Complete("report_generator", report_generator_update(state), FALSE)
       \/ /\ pc' = "raised"
          /\ executed' = Append(executed, "report_generator")
          /\ failed' = failed \cup {"report_generator"}
          /\ UNCHANGED << caller, company, thread, store, loaded, state, stream,
                          returned, exit_code, printed, runs, history, markers,
                          fault >>
          /\ UNCHANGED aux_vars

\* variant that keeps the first chunk of the stream instead of the last
final_value_first_chunk(chunks) ==
    IF chunks # <<>> THEN chunks[1].update ELSE EmptyDict

\* run_intelligence_workflow after the stream loop: the value of the first
\* dict in the last chunk, or {} when nothing was yielded.
final_value(chunks) ==
    IF chunks # <<>> THEN chunks[Len(chunks)].update ELSE EmptyDict

\* variant that hands back the aggregate state the graph has accumulated
Return_returning_state ==
    /\ pc = END
    /\ returned' = state
    /\ pc' = "returned"
    /\ UNCHANGED << caller, company, thread, store, loaded, state, stream,
                    exit_code, printed, runs, history, executed, markers, failed,
                    fault >>
    /\ UNCHANGED aux_vars

Return ==
    /\ pc = END
    /\ returned' = final_value(stream)
    /\ pc' = "returned"
    /\ UNCHANGED << caller, company, thread, store, loaded, state, stream,
                    exit_code, printed, runs, history, executed, markers, failed,
                    fault >>
    /\ UNCHANGED aux_vars

\* main(): what it prints and the status the process exits with.
main_printed(raised, result) ==
    IF raised THEN "Error running workflow"
    ELSE IF DOMAIN result # {} /\ "final_report" \in DOMAIN result
         THEN "final_report"
         ELSE "Error: Could not generate report"

main_exit_code(raised, result) ==
    IF raised THEN 1 ELSE 0

MainExit ==
    /\ caller = "main"
    /\ pc \in {"returned", "raised"}
    /\ printed' = main_printed(pc = "raised", returned)
    /\ exit_code' = main_exit_code(pc = "raised", returned)
    /\ pc' = "exited"
    /\ UNCHANGED << caller, company, thread, store, loaded, state, stream,
                    returned, runs, history, executed, markers, failed, fault >>
    /\ UNCHANGED aux_vars

\* variant of the stream loop that catches the exception and records it in
\* the error field, as the stage nodes do
stream_exception_captured(st, msg) ==
    [ pc |-> END, state |-> Merge(st, [error |-> PyStr(msg)]) ]

\* run_intelligence_workflow when app.stream raises: the loop has no
\* handler, the exception leaves the function and the state is not touched.
stream_exception(st, msg) ==
    [ pc |-> "raised", state |-> st ]

\* The node that was due has run, and the checkpoint write that follows it
\* raises inside app.stream; no chunk is yielded for the step.
CheckpointFault ==
    /\ pc \in Stages
    /\ \E msg \in ExcMsgs :
          LET out == stream_exception(state, msg)
          IN  pc' = out.pc /\ state' = out.state
    /\ fault' = "checkpoint"
    /\ executed' = Append(executed, pc)
    /\ UNCHANGED << caller, company, thread, store, loaded, stream, returned,
                    exit_code, printed, runs, history, markers, failed >>
    /\ UNCHANGED aux_vars

Next ==
    \/ \E c \in Subjects, t \in Threads, who \in Callers : StartRun(c, t, who)
    \/ DataCollectorNode
    \/ AnalystNode
    \/ ReportGeneratorNode
    \/ Return
    \/ MainExit

Spec == Init /\ [][Next]_vars

\* The same program with a checkpointer whose writes can fail.
NextFaults == Next \/ CheckpointFault

SpecFaults == Init /\ [][NextFaults]_vars

\* The run is one synchronous loop: a node that is due runs, and the loop
\* that has reached END returns.
FairSpec ==
    /\ Spec
    /\ WF_vars(DataCollectorNode)
    /\ WF_vars(AnalystNode)
    /\ WF_vars(ReportGeneratorNode)
    /\ WF_vars(Return)

\* ------------------------------------------------- the merge policy alone
\* Entries of the event log and the logs and updates of at most MaxLen
\* entries.
Entries == {"m1", "m2"}

BoundedLogs == UNION { [1..n -> Entries] : n \in 0..MaxLen }

\* The log of a state holding `log` after the updates `first` and `second`
\* were merged one after the other, and after their concatenation was merged
\* in one step.
MergeLog ==
    /\ MergeInit
    /\ \E log \in BoundedLogs, first \in BoundedLogs, second \in BoundedLogs :
          LET st == Merge(create_initial_state("Acme Corp"), [messages |-> log])
          IN  merge_call' =
                [ log |-> log, first |-> first, second |-> second,
                  one_at_a_time |->
                    Merge(Merge(st, [messages |-> first]),
                          [messages |-> second]).messages,
                  batched |->
                    Merge(st, [messages |-> first \o second]).messages ]
    /\ UNCHANGED << wf_vars, risk_call, search_call, kb_vars >>

NextMerge == MergeLog

SpecMerge == Init /\ [][NextMerge]_vars

\* ------------------------------------------------------ risk_analyzer_tool
\* Numbers are integers: sentiment scores in tenths, prices and volumes in
\* units, percentages in points; a field holding 0 is also a field that is
\* absent or None, which the code's `.get(k, 0)` and `if x and ...` treat
\* alike.
Range(seq) == { seq[i] : i \in DOMAIN seq }

\* an element of news_data: an article, the error record news_fetcher_tool
\* returns, or a value that is not a mapping
NewsItems ==
    { PyDict([sentiment_score |-> sc, category |-> c]) :
        sc \in {-5, -1, 3}, c \in {"earnings", "leadership"} }
    \cup { PyDict([error |-> "Failed to fetch news"]), PyStr("not a record") }

NewsArguments ==
    {None} \cup { PyList(l) : l \in UNION { [1..n -> NewsItems] : n \in 0..MaxArticles } }

StockArguments ==
    {None, PyDict(EmptyDict), PyDict([error |-> "Failed to fetch stock data"])}
    \cup { PyDict([ daily_change_percent   |-> d,
                    monthly_change_percent |-> m,
                    pe_ratio               |-> pe,
                    current_price          |-> 100,
                    high_52_week           |-> hi,
                    low_52_week            |-> lo,
                    volume                 |-> v,
                    avg_volume             |-> 10 ]) :
             d \in {-4, 0}, m \in {-12, 0}, pe \in {0, 5, 20, 50},
             hi \in {100, 200}, lo \in {50, 95}, v \in {10, 30} }

Abs(x) == IF x < 0 THEN -x ELSE x

\* analyze_news_risks: [a] is <<a>> when the condition holds, else <<>>
analyze_news_risks(news_data) ==
    IF ~Truthy(news_data)
    THEN <<"Limited news coverage">>
    ELSE LET items == news_data[2]
             Score(n) == Get(n[2], "sentiment_score", 0)
             Category(n) == Get(n[2], "category", "")
             negative_count ==
                 Cardinality({ i \in DOMAIN items : Score(items[i]) < -2 })
             categories == { Category(items[i]) : i \in DOMAIN items }
         IN  (IF 2 * negative_count > Len(items)
              THEN <<"Predominantly negative news sentiment">> ELSE <<>>)
             \o (IF "earnings" \in categories
                    /\ \E i \in DOMAIN items :
                          Category(items[i]) = "earnings" /\ Score(items[i]) < 0
                 THEN <<"Recent earnings reports show concerning trends">>
                 ELSE <<>>)
             \o (IF "leadership" \in categories
                 THEN <<"Leadership changes">> ELSE <<>>)

analyze_stock_risks(stock_data) ==
    IF ~Truthy(stock_data) \/ "error" \in DOMAIN stock_data[2]
    THEN <<"Unable to assess stock-related risks">>
    ELSE LET d == stock_data[2]
             daily_change   == Abs(Get(d, "daily_change_percent", 0))
             monthly_change == Get(d, "monthly_change_percent", 0)
             pe_ratio       == Get(d, "pe_ratio", 0)
             current        == Get(d, "current_price", 0)
             high_52w       == Get(d, "high_52_week", 0)
             low_52w        == Get(d, "low_52_week", 0)
             volume         == Get(d, "volume", 0)
             avg_volume     == Get(d, "avg_volume", 0)
         IN  (IF daily_change > 3 THEN <<"High daily volatility">> ELSE <<>>)
             \o (IF monthly_change < -10
                 THEN <<"Significant monthly decline">> ELSE <<>>)
             \o (IF pe_ratio # 0 /\ pe_ratio > 40 THEN <<"High P/E ratio">>
                 ELSE IF pe_ratio # 0 /\ pe_ratio < 10 THEN <<"Low P/E ratio">>
                 ELSE <<>>)
             \o (IF high_52w # 0 /\ current # 0 /\ current * 10 < high_52w * 7
                 THEN <<"Trading significantly below 52-week high">> ELSE <<>>)
             \o (IF low_52w # 0 /\ current # 0 /\ current * 10 < low_52w * 11
                 THEN <<"Trading near 52-week low">> ELSE <<>>)
             \o (IF volume # 0 /\ avg_volume # 0 /\ volume > avg_volume * 2
                 THEN <<"Unusually high trading volume">> ELSE <<>>)

\* variant whose HIGH threshold is exclusive
risk_level_exclusive(risk_count) ==
    IF risk_count > 5 THEN "HIGH"
    ELSE IF risk_count >= 3 THEN "MODERATE"
    ELSE "LOW"

\* the overall level from the number of risks other than the market risks
risk_level(risk_count) ==
    IF risk_count >= 5 THEN "HIGH"
    ELSE IF risk_count >= 3 THEN "MODERATE"
    ELSE "LOW"

\* `n.get(...)` on an element that is not a mapping raises inside the try
news_analysis_raises(news_data) ==
    /\ Truthy(news_data)
    /\ \E i \in DOMAIN news_data[2] : news_data[2][i][1] # "dict"

risk_analyzer_tool(company_name, news_data, stock_data) ==
    IF news_analysis_raises(news_data)
    THEN [ company_name |-> company_name,
           error        |-> "Error analyzing risks",
           risk_level   |-> "UNKNOWN" ]
    ELSE LET news_risks  == IF Truthy(news_data)
                            THEN analyze_news_risks(news_data) ELSE <<>>
             stock_risks == IF Truthy(stock_data)
                            THEN analyze_stock_risks(stock_data) ELSE <<>>
             all_risks   == news_risks \o stock_risks \o MarketRisks
             risk_count  == Len(all_risks) - Len(MarketRisks)
         IN  [ company_name |-> company_name,
               risk_level   |-> risk_level(risk_count),
               risk_count   |-> Len(all_risks),
               risk_categories |->
                 [ c \in {"General Market Risks"}
                      \cup (IF news_risks # <<>>
                            THEN {"News & Sentiment Risks"} ELSE {})
                      \cup (IF stock_risks # <<>>
                            THEN {"Stock Performance Risks"} ELSE {}) |->
                   CASE c = "News & Sentiment Risks" -> news_risks
                     [] c = "Stock Performance Risks" -> stock_risks
                     [] c = "General Market Risks" -> MarketRisks ],
               all_risks    |-> all_risks ]

\* one call of the tool, on any arguments
RiskAnalyzerTool ==
    /\ RiskInit
    /\ \E company_name \in Subjects, news_data \in NewsArguments,
          stock_data \in StockArguments :
          risk_call' =
            [ company_name |-> company_name, news_data |-> news_data,
              stock_data |-> stock_data,
              result |-> PyDict(risk_analyzer_tool(company_name, news_data,
                                                   stock_data)) ]
    /\ UNCHANGED << wf_vars, merge_call, search_call, kb_vars >>

NextRisk == RiskAnalyzerTool

SpecRisk == Init /\ [][NextRisk]_vars

\* ------------------------------------------------- knowledge bot: texts
\* A string is kept as the sequence of its words, punctuation dropped; the
\* substring test `x in text` is the test that the words of x occur in text
\* side by side.
Lower(w) ==
    CASE w = "CEO"     -> "ceo"
      [] w = "OpenAI"  -> "openai"
      [] w = "Tesla"   -> "tesla"
      [] w = "Error"   -> "error"
      [] w = "Sam"     -> "sam"
      [] w = "Altman"  -> "altman"
      [] w = "Satya"   -> "satya"
      [] w = "Nadella" -> "nadella"
      [] w = "Sundar"  -> "sundar"
      [] w = "Pichai"  -> "pichai"
      [] w = "Elon"    -> "elon"
      [] w = "Musk"    -> "musk"
      [] w = "Tim"     -> "tim"
      [] w = "Cook"    -> "cook"
      [] OTHER         -> w

\* str.lower()
lower(text) == [ i \in DOMAIN text |-> Lower(text[i]) ]

\* str.title() on the companies of company_keywords
Title(w) ==
    CASE w = "openai"    -> "Openai"
      [] w = "microsoft" -> "Microsoft"
      [] w = "google"    -> "Google"
      [] w = "alphabet"  -> "Alphabet"
      [] w = "tesla"     -> "Tesla"
      [] w = "apple"     -> "Apple"

Contains(text, phrase) ==
    \E i \in 1..(Len(text) - Len(phrase) + 1) :
        SubSeq(text, i, i + Len(phrase) - 1) = phrase

ContainsAny(text, words) == \E w \in words : Contains(text, <<w>>)

Lowest(indices) == CHOOSE i \in indices : \A j \in indices : i <= j

\* What the user types.
Queries ==
    { <<"who", "is", "the", "CEO", "of", "OpenAI">>,
      <<"where", "did", "he", "study">>,
      <<"python", "Error", "codes">> }

\* ------------------------------------------------- knowledge bot: tools
KNOWLEDGE_BASE ==
    [ openai_ceo    |-> [ name |-> <<"Sam", "Altman">>,
                          education |-> <<"Stanford", "University">>,
                          birth_year |-> "1985" ],
      microsoft_ceo |-> [ name |-> <<"Satya", "Nadella">>,
                          education |-> <<"University", "of", "Wisconsin">>,
                          birth_year |-> "1967" ],
      google_ceo    |-> [ name |-> <<"Sundar", "Pichai">>,
                          education |-> <<"Stanford", "University">>,
                          birth_year |-> "1972" ],
      tesla_ceo     |-> [ name |-> <<"Elon", "Musk">>,
                          education |-> <<"University", "of", "Pennsylvania">>,
                          birth_year |-> "1971" ],
      apple_ceo     |-> [ name |-> <<"Tim", "Cook">>,
                          education |-> <<"Duke", "University">>,
                          birth_year |-> "1960" ] ]

\* the keys of KNOWLEDGE_BASE in the order the dictionary lists them
KnowledgeKeys ==
    <<"openai_ceo", "microsoft_ceo", "google_ceo", "tesla_ceo", "apple_ceo">>

company_keywords ==
    << <<"openai", "openai_ceo">>, <<"microsoft", "microsoft_ceo">>,
       <<"google", "google_ceo">>, <<"alphabet", "google_ceo">>,
       <<"tesla", "tesla_ceo">>, <<"apple", "apple_ceo">> >>

\* search_knowledge_base: the answer as a text, or None
search_knowledge_base(query) ==
    LET query_lower == lower(query)
        asks_ceo == ContainsAny(query_lower, {"ceo", "chief", "head"})
        asks_study == ContainsAny(query_lower, {"study", "studied", "education",
                                               "university", "college", "school"})
        asks_born == ContainsAny(query_lower, {"born", "age", "year"})
        companies_hit ==
            { i \in DOMAIN company_keywords :
                Contains(query_lower, <<company_keywords[i][1]>>) /\ asks_ceo }
        people_hit ==
            { i \in DOMAIN KnowledgeKeys :
                /\ ContainsAny(query_lower,
                               Range(lower(KNOWLEDGE_BASE[KnowledgeKeys[i]].name)))
                /\ (asks_study \/ asks_born) }
    IN  IF companies_hit # {}
        THEN LET pair == company_keywords[Lowest(companies_hit)]
                 data == KNOWLEDGE_BASE[pair[2]]
             IN  PyText(<<"The", "CEO", "of", Title(pair[1]), "is">>
                        \o data.name \o data.education)
        ELSE IF people_hit # {}
        THEN LET data == KNOWLEDGE_BASE[KnowledgeKeys[Lowest(people_hit)]]
             IN  IF asks_study
                 THEN PyText(data.name \o <<"studied", "at">> \o data.education)
                 ELSE PyText(data.name \o <<"was", "born", "in", data.birth_year>>)
        ELSE None

\* What the wikipedia package does for a query, and the text search_wikipedia
\* makes of it.
WikipediaOutcomes ==
    { "page", "page_about_errors", "no_results", "options",
      "disambiguation_error", "could_not_find", "import_error", "exception" }

search_wikipedia(query, outcome) ==
    CASE outcome = "page" ->
           <<"Title", "a", "summary", "Source", "url">>
      [] outcome = "page_about_errors" ->
           <<"Error", "an", "error", "is", "a", "mistake", "Source", "url">>
      [] outcome = "no_results" ->
           <<"No", "Wikipedia", "results", "found", "for">> \o query
      [] outcome = "options" ->
           <<"Multiple", "results", "found", "Options", "a", "b">>
      [] outcome = "disambiguation_error" ->
           <<"Disambiguation", "error", "for">> \o query
      [] outcome = "could_not_find" ->
           <<"Could", "not", "find", "detailed", "information", "for">> \o query
      [] outcome = "import_error" ->
           <<"Wikipedia", "module", "not", "available", "Using", "fallback",
             "search">>
      [] outcome = "exception" ->
           <<"Wikipedia", "search", "error", "boom">>

DuckDuckGoOutcomes ==
    { "results", "results_about_errors", "no_results", "import_error",
      "exception" }

search_duckduckgo(query, outcome) ==
    CASE outcome = "results" ->
           <<"1", "title", "body", "href">>
      [] outcome = "results_about_errors" ->
           <<"1", "Error", "codes", "body", "href">>
      [] outcome = "no_results" ->
           <<"No", "DuckDuckGo", "results", "found", "for">> \o query
      [] outcome = "import_error" ->
           <<"DuckDuckGo", "search", "module", "not", "available">>
      [] outcome = "exception" ->
           <<"DuckDuckGo", "search", "error", "boom">>

CouldNotFind(query) ==
    <<"I", "couldn't", "find", "specific", "information", "about">> \o query
    \o <<"Please", "try", "rephrasing", "your", "question">>

\* web_search_tool: the text returned and the sources it called, in order
web_search_tool(query, wikipedia, duckduckgo) ==
    LET kb_result   == search_knowledge_base(query)
        wiki_result == search_wikipedia(query, wikipedia)
        ddg_result  == search_duckduckgo(query, duckduckgo)
    IN  IF Truthy(kb_result)
        THEN [ text |-> <<"[From Knowledge Base]">> \o kb_result[2],
               consulted |-> <<"knowledge_base">> ]
        ELSE IF /\ wiki_result # <<>>
                /\ ~Contains(lower(wiki_result), <<"error">>)
                /\ ~Contains(lower(wiki_result), <<"not", "found">>)
        THEN [ text |-> <<"[From Wikipedia]">> \o wiki_result,
               consulted |-> <<"knowledge_base", "wikipedia">> ]
        ELSE IF /\ ddg_result # <<>>
                /\ ~Contains(lower(ddg_result), <<"error">>)
        THEN [ text |-> <<"[From Web Search]">> \o ddg_result,
               consulted |-> <<"knowledge_base", "wikipedia", "duckduckgo">> ]
        ELSE [ text |-> CouldNotFind(query),
               consulted |-> <<"knowledge_base", "wikipedia", "duckduckgo">> ]

\* one call of the tool, on any query and any behaviour of the two services
WebSearchTool ==
    /\ SearchInit
    /\ \E query \in Queries, wikipedia \in WikipediaOutcomes,
          duckduckgo \in DuckDuckGoOutcomes :
          search_call' =
            [ query |-> query, wikipedia |-> wikipedia,
              duckduckgo |-> duckduckgo,
              result |-> PyDict(web_search_tool(query, wikipedia, duckduckgo)) ]
    /\ UNCHANGED << wf_vars, merge_call, risk_call, kb_vars >>

NextSearch == WebSearchTool

SpecSearch == Init /\ [][NextSearch]_vars

\* ------------------------------------------------- knowledge bot: memory
HumanMessage(content) == [ type |-> "human", content |-> content ]
AIMessage(content) == [ type |-> "ai", content |-> content ]

\* variant that stores the answer before the question
save_context_answer_first(msgs, user_input, ai_output) ==
    Append(Append(msgs, AIMessage(ai_output)), HumanMessage(user_input))

\* KnowledgeBotMemory.save_context on message_history: add_user_message,
\* then add_ai_message
save_context(msgs, user_input, ai_output) ==
    Append(Append(msgs, HumanMessage(user_input)), AIMessage(ai_output))

\* KnowledgeBotMemory.get_chat_history: the lines of the string it returns;
\* every line starts with its speaker, so the empty string is no line at all
get_chat_history(msgs) ==
    IF msgs = <<>> THEN <<>>
    ELSE [ i \in DOMAIN msgs |->
             IF msgs[i].type = "human"
             THEN <<"Human:">> \o msgs[i].content
             ELSE <<"AI:">> \o msgs[i].content ]

\* ---------------------------------------------------- knowledge bot: chat
companies ==
    <<"openai", "microsoft", "google", "apple", "tesla", "amazon", "meta",
      "facebook">>

names ==
    << [ words |-> <<"sam", "altman">>,    text |-> "sam altman" ],
       [ words |-> <<"satya", "nadella">>, text |-> "satya nadella" ],
       [ words |-> <<"sundar", "pichai">>, text |-> "sundar pichai" ],
       [ words |-> <<"tim", "cook">>,      text |-> "tim cook" ],
       [ words |-> <<"elon", "musk">>,     text |-> "elon musk" ] >>

\* KnowledgeBot._extract_entity: the first company, else the first name,
\* found in the text, else None
extract_entity(text) ==
    LET text_lower == lower(text)
        companies_hit ==
            { i \in DOMAIN companies : Contains(text_lower, <<companies[i]>>) }
        names_hit ==
            { i \in DOMAIN names : Contains(text_lower, names[i].words) }
    IN  IF companies_hit # {} THEN PyStr(companies[Lowest(companies_hit)])
        ELSE IF names_hit # {} THEN PyStr(names[Lowest(names_hit)].text)
        ELSE None

\* KnowledgeBot._resolve_context: the query, prefixed with the current
\* entity when it holds a pronoun and the memory has context for it
resolve_context(query, entity, msgs) ==
    IF /\ ContainsAny(lower(query), {"he", "she", "they", "him", "her"})
       /\ Truthy(entity)
       /\ msgs # <<>>
    THEN <<"Context", entity[2]>> \o query
    ELSE query

\* KnowledgeBot._direct_search
direct_search(query, wikipedia, duckduckgo, invoke) ==
    LET kb_result == search_knowledge_base(query)
    IN  IF Truthy(kb_result) THEN kb_result[2]
        ELSE IF invoke = "raises"
        THEN <<"Sorry", "I", "couldn't", "find", "information", "about", "that",
               "Error", "boom">>
        ELSE web_search_tool(query, wikipedia, duckduckgo).text

\* Every text _direct_search can return for a query, over the behaviours of
\* the two services and of the tool call.
DirectResponses ==
    [ query \in Queries |->
        { direct_search(query, wikipedia, duckduckgo, invoke) :
            wikipedia \in WikipediaOutcomes, duckduckgo \in DuckDuckGoOutcomes,
            invoke \in {"returns", "raises"} } ]

\* What agent_executor.invoke does: it returns a mapping with an output, a
\* mapping without one, or raises.
AgentOutcomes ==
    { [ kind |-> "output", text |-> <<"It", "is", "Elon", "Musk">> ],
      [ kind |-> "output", text |-> <<"I", "do", "not", "know">> ],
      [ kind |-> "no_output", text |-> <<>> ],
      [ kind |-> "raise", text |-> <<>> ] }

\* variant without the handler around the agent call
chat_response_unhandled(executor, outcome, direct) ==
    IF executor
    THEN CASE outcome.kind = "output" ->
                [ raised |-> FALSE, response |-> outcome.text, path |-> "agent" ]
           [] outcome.kind = "no_output" ->
                [ raised |-> FALSE, path |-> "agent",
                  response |-> <<"I'm", "not", "sure", "how", "to", "respond",
                                 "to", "that">> ]
           [] outcome.kind = "raise" ->
                [ raised |-> TRUE, response |-> <<>>, path |-> "agent" ]
    ELSE [ raised |-> FALSE, response |-> direct, path |-> "direct" ]

\* KnowledgeBot.chat up to the response: the agent's output, the direct
\* search when the agent raised, or the direct search when there is no agent
chat_response(executor, outcome, direct) ==
    IF executor
    THEN CASE outcome.kind = "output" ->
                [ raised |-> FALSE, response |-> outcome.text, path |-> "agent" ]
           [] outcome.kind = "no_output" ->
                [ raised |-> FALSE, path |-> "agent",
                  response |-> <<"I'm", "not", "sure", "how", "to", "respond",
                                 "to", "that">> ]
           [] outcome.kind = "raise" ->
                [ raised |-> FALSE, response |-> direct, path |-> "fallback" ]
    ELSE [ raised |-> FALSE, response |-> direct, path |-> "direct" ]

\* variant that sets the current entity without recording it
remember_entity_without_history(current, past, entity) ==
    IF Truthy(entity)
    THEN [ current_entity |-> entity, entity_history |-> past ]
    ELSE [ current_entity |-> current, entity_history |-> past ]

\* KnowledgeBot.chat, `if entity:`
remember_entity(current, past, entity) ==
    IF Truthy(entity)
    THEN [ current_entity |-> entity,
           entity_history |-> Append(past, entity[2]) ]
    ELSE [ current_entity |-> current, entity_history |-> past ]

Chat ==
    /\ turns < MaxTurns
    /\ \E user_input \in Queries, outcome \in AgentOutcomes :
       \E direct \in DirectResponses[user_input] :
          LET resolved_input == resolve_context(user_input, current_entity,
                                                message_history)
              r == chat_response(agent_executor, outcome, direct)
              first == extract_entity(user_input)
              entity == IF Truthy(first) THEN first
                        ELSE extract_entity(r.response)
              kept == remember_entity(current_entity, entity_history, entity)
          IN  /\ bot_call' = [ op |-> "chat", user_input |-> user_input,
                               resolved_input |-> resolved_input,
                               response |-> r.response, path |-> r.path,
                               raised |-> r.raised ]
              /\ IF r.raised
                 THEN UNCHANGED << message_history, chat_memory, current_entity,
                                   entity_history >>
                 ELSE /\ current_entity' = kept.current_entity
                      /\ entity_history' = kept.entity_history
                      /\ message_history' =
                           save_context(message_history, user_input, r.response)
                      /\ chat_memory' =
                           Append(chat_memory, [ input |-> user_input,
                                                 output |-> r.response ])
    /\ turns' = turns + 1
    /\ UNCHANGED << agent_executor, wf_vars, merge_call, risk_call,
                    search_call >>

\* KnowledgeBot.clear_memory
ClearMemory ==
    /\ turns < MaxTurns
    /\ message_history' = <<>>
    /\ chat_memory' = <<>>
    /\ current_entity' = None
    /\ entity_history' = <<>>
    /\ bot_call' = [ op |-> "clear_memory", user_input |-> <<>>,
                     resolved_input |-> <<>>, response |-> <<>>, path |-> "", raised |-> FALSE ]
    /\ turns' = turns + 1
    /\ UNCHANGED << agent_executor, wf_vars, merge_call, risk_call,
                    search_call >>

\* KnowledgeBotMemory.save_context called on the bot's memory directly
Answers == { <<"an", "answer">> }

SaveContext ==
    /\ turns < MaxTurns
    /\ \E user_input \in Queries, ai_output \in Answers :
          /\ message_history' =
               save_context(message_history, user_input, ai_output)
          /\ chat_memory' = Append(chat_memory, [ input |-> user_input,
                                                  output |-> ai_output ])
          /\ bot_call' = [ op |-> "save_context", user_input |-> user_input,
                           resolved_input |-> <<>>,
                           response |-> ai_output, path |-> "",
                           raised |-> FALSE ]
    /\ turns' = turns + 1
    /\ UNCHANGED << agent_executor, current_entity, entity_history, wf_vars,
                    merge_call, risk_call, search_call >>

\* KnowledgeBotMemory.clear called on the bot's memory directly
Clear ==
    /\ turns < MaxTurns
    /\ message_history' = <<>>
    /\ chat_memory' = <<>>
    /\ bot_call' = [ op |-> "clear", user_input |-> <<>>, resolved_input |-> <<>>,
                    response |-> <<>>,
                     path |-> "", raised |-> FALSE ]
    /\ turns' = turns + 1
    /\ UNCHANGED << agent_executor, current_entity, entity_history, wf_vars,
                    merge_call, risk_call, search_call >>

\* A bot built with or without an agent (use_llm and OPENAI_API_KEY).
InitBot ==
    /\ WorkflowInit
    /\ MergeInit
    /\ RiskInit
    /\ SearchInit
    /\ \E use_agent \in BOOLEAN : KnowledgeBotInit(use_agent)

NextBot ==
    \/ Chat
    \/ ClearMemory
    \/ SaveContext
    \/ Clear

SpecBot == InitBot /\ [][NextBot]_vars

\* ===================================================================
\* Properties
\* ===================================================================
Pipeline == <<"data_collector", "analyst", "report_generator">>

IsPrefix(a, b) == Len(a) <= Len(b) /\ a = SubSeq(b, 1, Len(a))

NonNull(d, k) == Get(d, k, None) # None

\* the latest run before the current one that used thread_id t, 0 if none
EarlierRun(t) ==
    LET earlier == { i \in 1..(runs - 1) : history[i] = t }
    IN  IF earlier = {} THEN 0
        ELSE CHOOSE i \in earlier : \A j \in earlier : j <= i

\* C1 Linear progression: while no stage has failed, the stages executed so
\* far and the values current_agent has taken are the same prefix of
\* data_collector, analyst, report_generator; a run that returns without a
\* failure has executed all three exactly once, in that order, and both the
\* aggregate state and the returned value have a non-null final_report.
LinearProgression ==
    failed = {} =>
        /\ IsPrefix(executed, Pipeline)
        /\ markers = executed
        /\ pc = "returned" =>
              /\ executed = Pipeline
              /\ NonNull(state, "final_report")
              /\ NonNull(returned, "final_report")

LinearProgressionWitness ==
    /\ pc = "returned"
    /\ failed = {}
    /\ executed = Pipeline

\* C2 Short-circuit: a stage data_collector or analyst that failed (and so
\* set error) is the last stage executed in its run, and final_report is
\* still null.
ShortCircuit ==
    \A i \in 1..Len(executed) :
        (executed[i] \in failed /\ executed[i] \in {"data_collector", "analyst"})
            => /\ i = Len(executed)
               /\ ~NonNull(state, "final_report")

\* C3 When the analyst failed, the value run_intelligence_workflow returns
\* still holds news_data and stock_data as the aggregate state holds them,
\* has a non-null error and a null final_report.
AnalystFailureKeepsCollection ==
    (pc = "returned" /\ "analyst" \in failed) =>
        /\ \A f \in {"news_data", "stock_data"} :
              f \in DOMAIN returned /\ returned[f] = state[f]
        /\ NonNull(returned, "error")
        /\ ~NonNull(returned, "final_report")

\* C4 A failure raised inside any of the three stages is captured in the
\* error field and never leaves run_intelligence_workflow as an exception.
StageFailuresCaptured ==
    \A s \in failed : pc # "raised" /\ NonNull(state, "error")

\* C5 A run whose thread_id was used by an earlier run of the process loads
\* the checkpoint that earlier run left.
CheckpointRetained ==
    (runs >= 1 /\ EarlierRun(thread) # 0) =>
        /\ loaded # {}
        /\ \A cp \in loaded : cp.run = EarlierRun(thread)

\* C6 main() exits with status 0 exactly when the run produced a final
\* report.
CliExitStatus ==
    pc = "exited" => (exit_code = 0 <=> NonNull(returned, "final_report"))

\* C7 The value returned by run_intelligence_workflow has a non-null
\* final_report or a non-null error.
ReturnedHasReportOrError ==
    pc = "returned" => NonNull(returned, "final_report") \/ NonNull(returned, "error")

ReturnedHasReportOrErrorWitness ==
    /\ pc = "returned"
    /\ "analyst" \in failed
    /\ ~NonNull(returned, "final_report")
    /\ NonNull(returned, "error")

CollectionFailureState ==
    (pc = "returned" /\ "data_collector" \in failed) =>
        /\ Get(returned, "current_agent", None) = PyStr("data_collector")
        /\ NonNull(returned, "error")
        /\ \A f \in {"analysis", "risk_factors", "final_report"} :
              ~NonNull(returned, f)

\* C10 The node the graph selects next is given by the routing table over
\* current_agent and error alone.
RoutingTable(marker, error) ==
    CASE marker = "" -> "data_collector"
      [] marker = "data_collector" -> IF error # None THEN END ELSE "analyst"
      [] marker = "analyst" -> IF error # None THEN END ELSE "report_generator"
      [] marker = "report_generator" -> END

RouterFollowsTable ==
    pc \in Stages \cup {END} =>
        pc = RoutingTable(state.current_agent[2], state.error)

\* position of a stage in the order data_collector < analyst < report_generator
StageIndex(n) ==
    CASE n = "data_collector" -> 1
      [] n = "analyst" -> 2
      [] n = "report_generator" -> 3

Running == pc \in Stages \cup {END}
RunOver == pc \in {"returned", "raised", "exited"}

\* C11 Termination: a run executes at most three stages, never the same
\* stage twice, the stage marker strictly advances along data_collector <
\* analyst < report_generator, and every run that has started reaches a
\* terminal state (it returns or raises).
BoundedAdvance ==
    /\ Len(executed) <= 3
    /\ \A i, j \in 1..Len(executed) : i < j => executed[i] # executed[j]
    /\ \A i, j \in 1..Len(markers) :
          i < j => StageIndex(markers[i]) < StageIndex(markers[j])

Termination == []BoundedAdvance /\ (Running ~> RunOver)

TerminationWitness ==
    /\ pc = "returned"
    /\ Len(executed) = 3
    /\ failed # {}

\* C12 final_report is non-null in the aggregate state only if
\* data_collector and analyst both completed without raising in this run.
ReportOnlyAfterCleanStages ==
    NonNull(state, "final_report") =>
        /\ failed \cap {"data_collector", "analyst"} = {}
        /\ IsPrefix(<<"data_collector", "analyst">>, executed)

\* C13 Once a stage has completed, current_agent names the most recently
\* completed stage, after a success and after a failure, report_generator
\* included.
MarkerIsLastCompleted ==
    stream # <<>> =>
        state.current_agent = PyStr(stream[Len(stream)].node)

MarkerIsLastCompletedWitness ==
    /\ Len(stream) = 3
    /\ failed # {}
    /\ state.current_agent = PyStr("report_generator")

\* C14 A run in which no stage failed returns a value whose final_report is
\* non-null and starts with the header of the upper-cased subject, and
\* whose error is null.
HeaderNamesSubject ==
    (pc = "returned" /\ failed = {}) =>
        /\ NonNull(returned, "final_report")
        /\ returned.final_report[2][1] = <<"header", Upper(company)>>
        /\ ~NonNull(returned, "error")

HeaderNamesSubjectWitness ==
    /\ pc = "returned"
    /\ failed = {}
    /\ company = "Acme Corp"
    /\ returned.final_report[2][1] = <<"header", "ACME CORP">>

\* C15 The report lists its blocks in the order header, stock, news,
\* analysis, risks, footer; header and footer are always there, and a middle
\* block is there exactly when its source data is present and is not an
\* error record.
BlockOrder == <<"header", "stock", "news", "analysis", "risks", "footer">>

SourcePresent(st, block) ==
    CASE block = "header" -> TRUE
      [] block = "stock" ->
            /\ Truthy(st.stock_data)
            /\ "error" \notin DOMAIN st.stock_data[2]
      [] block = "news" ->
            /\ Truthy(st.news_data)
            /\ st.news_data # NewsErrorRecord
      [] block = "analysis" -> Truthy(st.analysis)
      [] block = "risks" -> Truthy(st.risk_factors)
      [] block = "footer" -> TRUE

ExpectedBlocks(st) ==
    LET Keep(block) == SourcePresent(st, block)
    IN  SelectSeq(BlockOrder, Keep)

ReportBlocks ==
    NonNull(state, "final_report") =>
        LET blocks == state.final_report[2]
        IN  [i \in 1..Len(blocks) |-> blocks[i][1]] = ExpectedBlocks(state)

CheckpointFaultPropagates ==
    fault = "checkpoint" =>
        /\ pc \in {"raised", "exited"}
        /\ returned = EmptyDict
        /\ state = store[thread].values
        /\ pc = "exited" =>
              /\ exit_code = 1
              /\ printed = "Error running workflow"

CheckpointFaultPropagatesWitness ==
    /\ fault = "checkpoint"
    /\ pc = "exited"
    /\ failed = {}
    /\ Len(executed) = 2

\* a step in which a stage completed: app.stream yielded one more chunk
StageCompletes == Len(stream') = Len(stream) + 1
LastChunk == stream'[Len(stream')]

\* C18 The event log is append-only within a run: every step keeps the
\* existing entries in place, and each completed stage, successful or
\* failed, adds exactly its one entry at the end.
LogAppendOnly ==
    [][ (runs >= 1 /\ runs' = runs) =>
          /\ IsPrefix(state.messages, state'.messages)
          /\ StageCompletes =>
                /\ Len(state'.messages) = Len(state.messages) + 1
                /\ state'.messages =
                      state.messages \o Get(LastChunk.update, "messages", <<>>) ]_vars

LogAppendOnlyWitness ==
    /\ runs >= 1
    /\ state.messages = << "Error collecting data", "Completed analysis",
                           "Final report generated" >>

\* C19 Merging a stage's update leaves every field absent from the update
\* unchanged; the analyst leaves company_name, news_data and stock_data as
\* they were, and a failing stage changes nothing but error, current_agent
\* and messages.
FrameKept ==
    [][ StageCompletes =>
          /\ \A f \in DOMAIN state :
                f \notin DOMAIN LastChunk.update => state'[f] = state[f]
          /\ LastChunk.node = "analyst" =>
                \A f \in {"company_name", "news_data", "stock_data"} :
                    state'[f] = state[f]
          /\ LastChunk.node \in failed' \ failed =>
                \A f \in (DOMAIN state) \ {"error", "current_agent", "messages"} :
                    state'[f] = state[f] ]_vars

FrameKeptWitness ==
    /\ Len(stream) = 2
    /\ stream[2].node = "analyst"
    /\ failed = {}
    /\ state.news_data = NewsArticles
    /\ state.news_data = stream[1].update.news_data

MergeAssociativity ==
    /\ merge_call.one_at_a_time = merge_call.batched
    /\ merge_call.batched =
         merge_call.log \o merge_call.first \o merge_call.second

MergeAssociativityWitness ==
    /\ merge_call.log # <<>>
    /\ merge_call.first # <<>>
    /\ merge_call.second # <<>>
    /\ merge_call.first # merge_call.second
    /\ merge_call.one_at_a_time =
         merge_call.log \o merge_call.first \o merge_call.second

\* C23: risk_analyzer_tool always returns a record with a risk_level; when
\* it did not fail internally, all_risks ends with the three market risks and
\* the level is HIGH for at least 5 other risks, MODERATE for 3 or 4, LOW for
\* at most 2.
SpecificRisks(all_risks) ==
    Cardinality({ i \in DOMAIN all_risks : all_risks[i] \notin Range(MarketRisks) })

RiskLevels ==
    risk_call.result # None =>
        LET result == risk_call.result[2]
        IN  /\ "risk_level" \in DOMAIN result
            /\ "error" \notin DOMAIN result =>
                  LET all_risks == result.all_risks
                      n == SpecificRisks(all_risks)
                  IN  /\ Len(all_risks) >= 3
                      /\ SubSeq(all_risks, Len(all_risks) - 2, Len(all_risks))
                           = MarketRisks
                      /\ n >= 5 => result.risk_level = "HIGH"
                      /\ n \in {3, 4} => result.risk_level = "MODERATE"
                      /\ n <= 2 => result.risk_level = "LOW"

RiskLevelsWitness ==
    /\ risk_call.result # None
    /\ "error" \notin DOMAIN risk_call.result[2]
    /\ SpecificRisks(risk_call.result[2].all_risks) = 5
    /\ risk_call.result[2].risk_level = "HIGH"

\* C24: the value run_intelligence_workflow returns is the update of the
\* last stage that executed, not the merged state: after the report stage it
\* holds only final_report, current_agent and one log entry, after a stage
\* that failed only error, current_agent and messages.
LastExecuted == executed[Len(executed)]

RoutingNeverExhausts ==
    /\ pc # "no_target"
    /\ stream # <<>> =>
          LET node == stream[Len(stream)].node
          IN  /\ node = "data_collector" =>
                    /\ should_continue(state) \in {"analyst", "end"}
                    /\ should_continue(state)
                         \in DOMAIN conditional_edges["data_collector"]
              /\ node = "analyst" =>
                    /\ should_continue(state) \in {"report_generator", "end"}
                    /\ should_continue(state)
                         \in DOMAIN conditional_edges["analyst"]

RoutingNeverExhaustsWitness ==
    /\ pc = END
    /\ stream # <<>>
    /\ stream[Len(stream)].node = "analyst"
    /\ should_continue(state) = "end"

\* C26: when a data tool fails it returns its error record, so the collector
\* takes its success branch, error stays null, the analyst is due next, and a
\* run none of whose stages raises executes all three and returns a report.
ToolFailed ==
    /\ NonNull(state, "news_data")
    /\ NonNull(state, "stock_data")
    /\ \/ state.news_data = NewsErrorRecord
       \/ "error" \in DOMAIN state.stock_data[2]

ToolFailureContinues ==
    /\ (stream # <<>> /\ "data_collector" \notin failed) =>
          /\ DOMAIN stream[1].update =
               {"news_data", "stock_data", "current_agent", "messages"}
          /\ stream[1].update.news_data \in news_fetcher_results
          /\ stream[1].update.stock_data
               \in stock_data_results(state.company_name[2])
    /\ (stream # <<>> /\ ToolFailed) =>
          /\ "data_collector" \notin failed
          /\ Len(stream) = 1 => (state.error = None /\ pc = "analyst")
          /\ (pc = "returned" /\ failed = {}) =>
                /\ executed = Pipeline
                /\ state.error = None
                /\ NonNull(returned, "final_report")

ToolFailureContinuesWitness ==
    /\ pc = "returned"
    /\ failed = {}
    /\ state.news_data = NewsErrorRecord
    /\ "error" \in DOMAIN state.stock_data[2]
    /\ executed = Pipeline
    /\ NonNull(returned, "final_report")

\* C27: every call of chat appends exactly one turn to the memory, the
\* user's message then the response it returns, on the agent path, on the
\* path where the agent raised and the direct search answered, and without
\* an agent; the agent's exception never leaves chat.
ChatStep == bot_call'.op = "chat" /\ turns' = turns + 1

ChatRecordsOneTurn ==
    [][ ChatStep =>
          /\ ~bot_call'.raised
          /\ bot_call'.path \in {"agent", "fallback", "direct"}
          /\ message_history' =
               message_history
               \o << HumanMessage(bot_call'.user_input),
                     AIMessage(bot_call'.response) >> ]_vars

ChatRecordsOneTurnWitness ==
    /\ bot_call.op = "chat"
    /\ bot_call.path = "fallback"
    /\ Len(message_history) = 4
    /\ message_history[4] = AIMessage(bot_call.response)

\* C28: message_history has even length and alternates human, AI from a
\* human message, in call order; save_context grows it by exactly two; clear
\* empties it and get_chat_history then returns the empty string.
HistoryAlternates ==
    /\ Len(message_history) = 2 * Len(chat_memory)
    /\ \A k \in DOMAIN chat_memory :
          /\ message_history[2 * k - 1] = HumanMessage(chat_memory[k].input)
          /\ message_history[2 * k] = AIMessage(chat_memory[k].output)

SavesTurn ==
    /\ bot_call'.op \in {"chat", "save_context"}
    /\ ~bot_call'.raised
    /\ turns' = turns + 1

ClearsMemory == bot_call'.op \in {"clear", "clear_memory"} /\ turns' = turns + 1

HistoryShape ==
    /\ HistoryAlternates
    /\ [][ /\ HistoryAlternates'
           /\ SavesTurn => Len(message_history') = Len(message_history) + 2
           /\ ClearsMemory =>
                 /\ message_history' = <<>>
                 /\ get_chat_history(message_history') = <<>> ]_vars

HistoryShapeWitness ==
    /\ bot_call.op = "save_context"
    /\ Len(message_history) = 4
    /\ message_history[1].type = "human"
    /\ message_history[4].type = "ai"
    /\ Len(get_chat_history(message_history)) = 4

\* C29: current_entity is None exactly when entity_history is empty and is
\* otherwise its last element; a chat in which no entity is recognised leaves
\* both unchanged; clear_memory resets both together with the memory.
EntityIsLastOfHistory ==
    /\ current_entity = None <=> entity_history = <<>>
    /\ entity_history # <<>> =>
          current_entity = PyStr(entity_history[Len(entity_history)])

NoEntityRecognised(call) ==
    /\ extract_entity(call.user_input) = None
    /\ extract_entity(call.response) = None

EntityTracking ==
    /\ EntityIsLastOfHistory
    /\ [][ /\ EntityIsLastOfHistory'
           /\ (ChatStep /\ NoEntityRecognised(bot_call')) =>
                 UNCHANGED << current_entity, entity_history >>
           /\ (bot_call'.op = "clear_memory" /\ turns' = turns + 1) =>
                 /\ current_entity' = None
                 /\ entity_history' = <<>>
                 /\ message_history' = <<>>
                 /\ chat_memory' = <<>> ]_vars

EntityTrackingWitness ==
    /\ bot_call.op = "chat"
    /\ NoEntityRecognised(bot_call)
    /\ Len(entity_history) = 1
    /\ current_entity = PyStr(entity_history[1])
    /\ Len(message_history) = 4

\* C30: web_search_tool tries the knowledge base, then Wikipedia, then
\* DuckDuckGo, returns the result of the first source that found something,
\* tagged with that source, consults a later source only when no earlier one
\* found anything, and returns the could-not-find message when none did.
WikipediaFound(outcome) == outcome \in {"page", "page_about_errors", "options"}

DuckDuckGoFound(outcome) == outcome \in {"results", "results_about_errors"}

FirstUsableSource(query, wikipedia, duckduckgo) ==
    IF Truthy(search_knowledge_base(query)) THEN "knowledge_base"
    ELSE IF WikipediaFound(wikipedia) THEN "wikipedia"
    ELSE IF DuckDuckGoFound(duckduckgo) THEN "duckduckgo"
    ELSE "none"

SourceOrder ==
    search_call.result # None =>
        LET query  == search_call.query
            result == search_call.result[2]
            first  == FirstUsableSource(query, search_call.wikipedia,
                                        search_call.duckduckgo)
        IN  /\ IsPrefix(result.consulted,
                        <<"knowledge_base", "wikipedia", "duckduckgo">>)
            /\ first = "knowledge_base" =>
                  /\ result.consulted = <<"knowledge_base">>
                  /\ result.text = <<"[From Knowledge Base]">>
                                      \o search_knowledge_base(query)[2]
            /\ first = "wikipedia" =>
                  /\ result.consulted = <<"knowledge_base", "wikipedia">>
                  /\ result.text = <<"[From Wikipedia]">>
                        \o search_wikipedia(query, search_call.wikipedia)
            /\ first = "duckduckgo" =>
                  /\ result.consulted =
                       <<"knowledge_base", "wikipedia", "duckduckgo">>
                  /\ result.text = <<"[From Web Search]">>
                        \o search_duckduckgo(query, search_call.duckduckgo)
            /\ first = "none" =>
                  /\ result.consulted =
                       <<"knowledge_base", "wikipedia", "duckduckgo">>
                  /\ result.text = CouldNotFind(query)

====
